---- MODULE Spec2Model ----
(***************************************************************************)
(* A model of the clangd chunker: the symbol-tree flattener                *)
(* (internal/parser chunks.go), the view synthesizer (internal/nl),        *)
(* the JSON writer (internal/output) and the pipeline of cmd/clangd-parser.*)
(*                                                                         *)
(* A Go string is a sequence of one-character strings, so that trimming,   *)
(* prefix tests, regexp splits and case conversion are computed character  *)
(* by character.  A Go slice whose nil-ness is observable is a record      *)
(* [isNil, elems].                                                         *)
(***************************************************************************)
EXTENDS Integers, Sequences, FiniteSets, TLC

VARIABLES
    \* SpecFlatten: one call of ConvertSymbolsToChunks
    symbols, file, chunks, fpc,
    \* SpecDoc: one call of extractDocstring and of extractSnippet
    dLines, dStart, dEnd, dDoc, dSnip, dpc,
    \* SpecTok: one call of Subtokenize
    tIn, tOut, tParts, tpc,
    \* SpecViews: one call of BuildViews
    vChunk, vViews, vpc,
    \* Spec: the pipeline of main
    files, fileIdx, allChunks, successCount, errorCount, openDocs,
    written, writeErr, stats, logged, pc,
    \* SpecHum: one call of Humanize
    hIn, hOut, hpc,
    \* SpecFind: one call of FindCppFiles
    fsRoot, found, findErr, wpc

flattenVars == <<symbols, file, chunks, fpc>>
docVars == <<dLines, dStart, dEnd, dDoc, dSnip, dpc>>
tokVars == <<tIn, tOut, tParts, tpc>>
viewVars == <<vChunk, vViews, vpc>>
mainVars == <<files, fileIdx, allChunks, successCount, errorCount, openDocs,
              written, writeErr, stats, logged, pc>>
humVars == <<hIn, hOut, hpc>>
findVars == <<fsRoot, found, findErr, wpc>>
vars == <<flattenVars, docVars, tokVars, viewVars, mainVars, humVars, findVars>>

----------------------------------------------------------------------------
\* Bounds of the model.

\* most nodes in a symbol forest of the structural family
MaxNodes == 3
\* largest line number a symbol range names; file texts have fewer lines
MaxLine == 3
\* most source lines given to extractDocstring / extractSnippet
MaxLines == 4
\* longest identifier given to Subtokenize
MaxLen == 4
\* most files the pipeline processes
MaxFiles == 2
\* most entries, at any depth, below the root FindCppFiles walks
MaxEntries == 3

----------------------------------------------------------------------------
\* Strings: package strings, unicode and regexp on character sequences.

UpperLetters == <<"A","B","C","D","E","F","G","H","I","J","K","L","M",
                  "N","O","P","Q","R","S","T","U","V","W","X","Y","Z">>
LowerLetters == <<"a","b","c","d","e","f","g","h","i","j","k","l","m",
                  "n","o","p","q","r","s","t","u","v","w","x","y","z">>
Digits == {"0","1","2","3","4","5","6","7","8","9"}

Range(f) == { f[i] : i \in DOMAIN f }

IsUpper(c) == c \in Range(UpperLetters)
IsLower(c) == c \in Range(LowerLetters)
IsDigit(c) == c \in Digits
\* unicode.IsSpace on the characters of the model
IsSpace(c) == c \in {" ", "\t", "\n", "\r"}
\* the class [A-Za-z0-9_] (\w of RE2)
IsWordChar(c) == IsUpper(c) \/ IsLower(c) \/ IsDigit(c) \/ c = "_"

ToLowerChar(c) ==
    IF IsUpper(c)
    THEN LowerLetters[CHOOSE i \in DOMAIN UpperLetters : UpperLetters[i] = c]
    ELSE c

ToLower(s) == [i \in DOMAIN s |-> ToLowerChar(s[i])]

RECURSIVE TrimLeft(_)
TrimLeft(s) ==
    IF s # <<>> /\ IsSpace(Head(s)) THEN TrimLeft(Tail(s)) ELSE s

RECURSIVE TrimRight(_)
TrimRight(s) ==
    IF s # <<>> /\ IsSpace(s[Len(s)])
    THEN TrimRight(SubSeq(s, 1, Len(s) - 1))
    ELSE s

TrimSpace(s) == TrimRight(TrimLeft(s))

HasPrefix(s, p) == Len(s) >= Len(p) /\ SubSeq(s, 1, Len(p)) = p

TrimPrefix(s, p) == IF HasPrefix(s, p) THEN SubSeq(s, Len(p) + 1, Len(s)) ELSE s

\* strings.Join
RECURSIVE Join(_, _)
Join(parts, sep) ==
    IF parts = <<>> THEN <<>>
    ELSE IF Len(parts) = 1 THEN parts[1]
    ELSE parts[1] \o sep \o Join(Tail(parts), sep)

\* The elements of the finite set S of integers in increasing order.
RECURSIVE Ascending(_)
Ascending(S) ==
    IF S = {} THEN <<>>
    ELSE LET m == CHOOSE k \in S : \A j \in S : k <= j
         IN <<m>> \o Ascending(S \ {m})

\* The character classes the program splits on: "W" is [^A-Za-z0-9_] (also
\* \W of RE2), "_" the underscore, "/" the path separator.
InClass(cls, c) ==
    CASE cls = "W" -> ~IsWordChar(c)
      [] cls = "_" -> c = "_"
      [] cls = "/" -> c = "/"

\* The fields of s between the maximal runs of characters of the class
\* sep: regexp.Split(s, -1) for the pattern [class]+ .  As the regexp
\* package does, a separator run at the start or at the end leaves an empty
\* field there, and the empty string gives one empty field.
SplitRuns(s, sep) ==
    LET n == Len(s)
        starts == { i \in 1..n :
                      ~InClass(sep, s[i]) /\ (i = 1 \/ InClass(sep, s[i - 1])) }
        endOf(i) == CHOOSE j \in i..n :
                        /\ \A k \in i..j : ~InClass(sep, s[k])
                        /\ (j = n \/ InClass(sep, s[j + 1]))
        order == Ascending(starts)
        fields == [k \in DOMAIN order |-> SubSeq(s, order[k], endOf(order[k]))]
    IN IF n = 0 THEN << <<>> >>
       ELSE (IF InClass(sep, s[1]) THEN << <<>> >> ELSE <<>>)
            \o fields
            \o (IF InClass(sep, s[n]) THEN << <<>> >> ELSE <<>>)

RECURSIVE filterEmpty(_)
filterEmpty(in) ==
    IF in = <<>> THEN <<>>
    ELSE IF Head(in) # <<>>
         THEN <<Head(in)>> \o filterEmpty(Tail(in))
         ELSE filterEmpty(Tail(in))

splitAlphaNum(s) == filterEmpty(SplitRuns(s, "W"))

----------------------------------------------------------------------------
\* Go slices whose nil-ness the program can observe (encoding/json).

NilSlice == [isNil |-> TRUE, elems |-> <<>>]
EmptySlice == [isNil |-> FALSE, elems |-> <<>>]

\* append(s, x)
AppendOne(s, x) == [isNil |-> FALSE, elems |-> Append(s.elems, x)]

\* append(s, t...): appending nothing returns s itself, nil or not
AppendAll(s, t) ==
    IF Len(t.elems) = 0 THEN s
    ELSE [isNil |-> FALSE, elems |-> s.elems \o t.elems]

----------------------------------------------------------------------------
\* package lsp: the symbol kinds of the Language Server Protocol.

SymbolKindNamespace == 3
SymbolKindClass == 5
SymbolKindMethod == 6
SymbolKindProperty == 7
SymbolKindField == 8
SymbolKindConstructor == 9
SymbolKindEnum == 10
SymbolKindInterface == 11
SymbolKindFunction == 12
SymbolKindVariable == 13
SymbolKindStruct == 23

\* lsp.DocumentSymbol
DocumentSymbol(name, detail, kind, startLine, endLine, children) ==
    [Name |-> name, Detail |-> detail, Kind |-> kind,
     Range |-> [Start |-> [Line |-> startLine], End |-> [Line |-> endLine]],
     Children |-> children]

----------------------------------------------------------------------------
\* package parser, chunks.go: the symbol-tree flattener.

LabelFunction == <<"F","u","n","c","t","i","o","n">>
LabelMethod == <<"M","e","t","h","o","d">>
LabelClass == <<"C","l","a","s","s">>
LabelStruct == <<"S","t","r","u","c","t">>
LabelConstructor == <<"C","o","n","s","t","r","u","c","t","o","r">>
LabelEnum == <<"E","n","u","m">>
LabelInterface == <<"I","n","t","e","r","f","a","c","e">>
LabelNamespace == <<"N","a","m","e","s","p","a","c","e">>
LabelUnknown == <<"U","n","k","n","o","w","n">>

\* shouldExtractSymbol with every kind extracted
shouldExtractSymbolAny(kind) == TRUE

shouldExtractSymbol(kind) ==
    \/ kind = SymbolKindFunction
    \/ kind = SymbolKindMethod
    \/ kind = SymbolKindClass
    \/ kind = SymbolKindStruct
    \/ kind = SymbolKindConstructor
    \/ kind = SymbolKindEnum
    \/ kind = SymbolKindInterface
    \/ kind = SymbolKindNamespace

symbolKindToString(kind) ==
    LET kinds == (SymbolKindFunction :> LabelFunction)
              @@ (SymbolKindMethod :> LabelMethod)
              @@ (SymbolKindClass :> LabelClass)
              @@ (SymbolKindStruct :> LabelStruct)
              @@ (SymbolKindConstructor :> LabelConstructor)
              @@ (SymbolKindEnum :> LabelEnum)
              @@ (SymbolKindInterface :> LabelInterface)
              @@ (SymbolKindNamespace :> LabelNamespace)
    IN IF kind \in DOMAIN kinds THEN kinds[kind] ELSE LabelUnknown

getSignature(symbol) ==
    IF symbol.Detail # <<>> THEN symbol.Detail ELSE symbol.Name

DocPrefix3 == <<"/", "/", "/">>
DocPrefixBang == <<"/", "/", "!">>

\* docLoop with each documentation line appended instead of prepended
RECURSIVE docLoopAppend(_, _, _)
docLoopAppend(i, fileLines, docLines) ==
    IF ~(i >= 0 /\ i < Len(fileLines)) THEN docLines
    ELSE LET line == TrimSpace(fileLines[i + 1])
         IN IF HasPrefix(line, DocPrefix3)
            THEN docLoopAppend(i - 1, fileLines,
                     Append(docLines, TrimSpace(TrimPrefix(line, DocPrefix3))))
            ELSE IF HasPrefix(line, DocPrefixBang)
            THEN docLoopAppend(i - 1, fileLines,
                     Append(docLines, TrimSpace(TrimPrefix(line, DocPrefixBang))))
            ELSE IF line = <<>>
            THEN docLoopAppend(i - 1, fileLines, docLines)
            ELSE docLines

\* The loop of extractDocstring at index i (0-indexed), docLines so far.
RECURSIVE docLoop(_, _, _)
docLoop(i, fileLines, docLines) ==
    IF ~(i >= 0 /\ i < Len(fileLines)) THEN docLines
    ELSE LET line == TrimSpace(fileLines[i + 1])
         IN IF HasPrefix(line, DocPrefix3)
            THEN docLoop(i - 1, fileLines,
                         <<TrimSpace(TrimPrefix(line, DocPrefix3))>> \o docLines)
            ELSE IF HasPrefix(line, DocPrefixBang)
            THEN docLoop(i - 1, fileLines,
                         <<TrimSpace(TrimPrefix(line, DocPrefixBang))>> \o docLines)
            ELSE IF line = <<>>
            THEN docLoop(i - 1, fileLines, docLines)
            ELSE docLines

extractDocstringAt(startLine, fileLines) ==
    IF startLine = 0 \/ startLine > Len(fileLines) THEN <<>>
    ELSE Join(docLoop(startLine - 1, fileLines, <<>>), <<" ">>)

extractDocstring(symbol, fileLines) ==
    extractDocstringAt(symbol.Range.Start.Line, fileLines)

\* What a failed bounds check of a slice expression leaves: a run-time panic.
Panic == <<"panic: slice bounds out of range">>

\* fileLines[lo:hi] is in bounds
SliceInBounds(fileLines, lo, hi) == 0 <= lo /\ lo <= hi /\ hi <= Len(fileLines)

\* extractSnippet with the end of the range compared by > instead of >=
extractSnippetLinesOffByOne(start, end, fileLines) ==
    IF start < 0 \/ end > Len(fileLines) \/ start > end THEN <<>>
    ELSE IF ~SliceInBounds(fileLines, start, end + 1) THEN Panic
    ELSE Join(SubSeq(fileLines, start + 1, end + 1), <<"\n">>)

\* extractSnippet without the test start > end
extractSnippetLinesNoOrder(start, end, fileLines) ==
    IF start < 0 \/ end >= Len(fileLines) THEN <<>>
    ELSE IF ~SliceInBounds(fileLines, start, end + 1) THEN Panic
    ELSE Join(SubSeq(fileLines, start + 1, end + 1), <<"\n">>)

extractSnippetLines(start, end, fileLines) ==
    IF start < 0 \/ end >= Len(fileLines) \/ start > end THEN <<>>
    ELSE IF ~SliceInBounds(fileLines, start, end + 1) THEN Panic
    ELSE Join(SubSeq(fileLines, start + 1, end + 1), <<"\n">>)

extractSnippet(rng, fileLines) ==
    extractSnippetLines(rng.Start.Line, rng.End.Line, fileLines)

\* Index of the last "/" of a path, 0 when it has none.
LastSlash(path) ==
    LET at == { i \in DOMAIN path : path[i] = "/" }
    IN IF at = {} THEN 0 ELSE CHOOSE i \in at : \A j \in at : j <= i

\* filepath.Base and filepath.Dir, for a clean path that does not end in "/"
pathBase(path) == SubSeq(path, LastSlash(path) + 1, Len(path))

pathDir(path) ==
    IF LastSlash(path) = 0 THEN <<".">>
    ELSE IF LastSlash(path) = 1 THEN <<"/">>
    ELSE SubSeq(path, 1, LastSlash(path) - 1)

\* strings.Split(dir, "/") keeps empty parts, and always has a last part
extractModule(filePath) ==
    LET dir == pathDir(filePath)
        parts == IF dir = <<"/">> THEN << <<>>, <<>> >>
                 ELSE SplitRuns(dir, "/")
    IN IF Len(parts) > 0 THEN parts[Len(parts)] ELSE <<>>

\* bufio.Scanner with ScanLines: the text cut at each "\n", a "\r" before
\* the cut dropped, and no last line after a final "\n".
RECURSIVE scanLines(_, _)
scanLines(text, cur) ==
    LET dropCR(l) == IF l # <<>> /\ l[Len(l)] = "\r"
                     THEN SubSeq(l, 1, Len(l) - 1) ELSE l
    IN IF text = <<>>
       THEN IF cur = <<>> THEN <<>> ELSE <<dropCR(cur)>>
       ELSE IF Head(text) = "\n"
            THEN <<dropCR(cur)>> \o scanLines(Tail(text), <<>>)
            ELSE scanLines(Tail(text), Append(cur, Head(text)))

\* A file of the file system: [readable, path, text].
\* readFileLines with the error of os.Open ignored
readFileLinesNoCheck(f) == scanLines(f.text, <<>>)

readFileLines(f) ==
    IF ~f.readable THEN <<>> ELSE scanLines(f.text, <<>>)

\* the chunk literal with the 0-indexed lines of the range kept
MakeChunkZeroIndexed(symbol, filePath, fileLines, parentStruct) ==
    [Name |-> symbol.Name,
     Signature |-> getSignature(symbol),
     CodeType |-> symbolKindToString(symbol.Kind),
     Docstring |-> extractDocstring(symbol, fileLines),
     Line |-> symbol.Range.Start.Line,
     LineFrom |-> symbol.Range.Start.Line,
     LineTo |-> symbol.Range.End.Line,
     Context |-> [Module |-> extractModule(filePath),
                  FilePath |-> filePath,
                  FileName |-> pathBase(filePath),
                  StructName |-> parentStruct,
                  Snippet |-> extractSnippet(symbol.Range, fileLines)]]

MakeChunk(symbol, filePath, fileLines, parentStruct) ==
    [Name |-> symbol.Name,
     Signature |-> getSignature(symbol),
     CodeType |-> symbolKindToString(symbol.Kind),
     Docstring |-> extractDocstring(symbol, fileLines),
     Line |-> symbol.Range.Start.Line + 1,
     LineFrom |-> symbol.Range.Start.Line + 1,
     LineTo |-> symbol.Range.End.Line + 1,
     Context |-> [Module |-> extractModule(filePath),
                  FilePath |-> filePath,
                  FileName |-> pathBase(filePath),
                  StructName |-> parentStruct,
                  Snippet |-> extractSnippet(symbol.Range, fileLines)]]

\* childParentStruct with the context set by a Class only
childParentStructClassOnly(symbol, parentStruct) ==
    IF shouldExtractSymbol(symbol.Kind) /\ symbol.Kind = SymbolKindClass
    THEN symbol.Name
    ELSE parentStruct

\* The parentStruct the children of symbol are processed with.
childParentStruct(symbol, parentStruct) ==
    IF /\ shouldExtractSymbol(symbol.Kind)
       /\ (symbol.Kind = SymbolKindClass \/ symbol.Kind = SymbolKindStruct)
    THEN symbol.Name
    ELSE parentStruct

RECURSIVE processSymbol(_, _, _, _, _)
RECURSIVE processChildren(_, _, _, _, _)

\* processSymbol with the children visited inside the extraction branch
processSymbolExtractedOnly(symbol, filePath, fileLines, parentStruct, acc) ==
    IF shouldExtractSymbol(symbol.Kind)
    THEN processChildren(symbol.Children, filePath, fileLines,
             childParentStruct(symbol, parentStruct),
             AppendOne(acc, MakeChunk(symbol, filePath, fileLines, parentStruct)))
    ELSE acc

\* processSymbol with the chunk appended after the children are processed
processSymbolPostOrder(symbol, filePath, fileLines, parentStruct, acc) ==
    LET acc1 == processChildren(symbol.Children, filePath, fileLines,
                                childParentStruct(symbol, parentStruct), acc)
    IN IF shouldExtractSymbol(symbol.Kind)
       THEN AppendOne(acc1, MakeChunk(symbol, filePath, fileLines, parentStruct))
       ELSE acc1

\* processSymbol, with *chunks passed in and the new *chunks returned
processSymbol(symbol, filePath, fileLines, parentStruct, acc) ==
    LET acc1 == IF shouldExtractSymbol(symbol.Kind)
                THEN AppendOne(acc, MakeChunk(symbol, filePath, fileLines, parentStruct))
                ELSE acc
    IN processChildren(symbol.Children, filePath, fileLines,
                       childParentStruct(symbol, parentStruct), acc1)

\* the loop "for _, child := range symbol.Children"
processChildren(children, filePath, fileLines, parentStruct, acc) ==
    IF children = <<>> THEN acc
    ELSE processChildren(Tail(children), filePath, fileLines, parentStruct,
             processSymbol(Head(children), filePath, fileLines, parentStruct, acc))

ConvertSymbolsToChunks(syms, f) ==
    processChildren(syms, f.path, readFileLines(f), <<>>, NilSlice)

----------------------------------------------------------------------------
\* Inputs of the flattener.

\* The forests of exactly n nodes whose nodes are drawn from protos (nodes
\* without children), in every shape.
RECURSIVE ForestsOf(_, _)
ForestsOf(n, protos) ==
    IF n = 0 THEN { <<>> }
    ELSE UNION { LET below == ForestsOf(k, protos)
                     after == ForestsOf(n - 1 - k, protos)
                 IN { <<[l EXCEPT !.Children = c]>> \o rest :
                        l \in protos, c \in below, rest \in after } :
                 k \in 0..(n - 1) }

NameA == <<"A">>
NameB == <<"B">>

\* Nodes that differ in kind and name: two kinds that set the struct
\* context, one that is extracted and does not, one that is not extracted.
StructProtos ==
    { DocumentSymbol(NameA, <<>>, SymbolKindClass, 0, 0, <<>>),
      DocumentSymbol(NameB, <<>>, SymbolKindStruct, 0, 0, <<>>),
      DocumentSymbol(NameA, <<>>, SymbolKindFunction, 0, 0, <<>>),
      DocumentSymbol(NameB, <<>>, SymbolKindFunction, 0, 0, <<>>),
      DocumentSymbol(NameB, <<>>, SymbolKindVariable, 0, 0, <<>>) }

StructForests == UNION { ForestsOf(n, StructProtos) : n \in 0..MaxNodes }

\* Single nodes that differ in detail and line range, valid or not.
RangeForests ==
    { <<DocumentSymbol(NameA, detail, kind, s, e, <<>>)>> :
        detail \in { <<>>, <<"i", "n", "t", " ", "A", "(", ")">> },
        kind \in {SymbolKindFunction, SymbolKindVariable},
        s \in (-1)..MaxLine, e \in (-1)..MaxLine }

\* The values a SymbolKind may hold: those of the protocol (1..26) and two
\* the program does not recognise.
SymbolKinds == 0..27

\* A node of any kind, alone or with one child of any kind.
KindForests ==
    { <<DocumentSymbol(NameA, <<>>, kind, 0, 0, <<>>)>> : kind \in SymbolKinds }
    \cup { <<DocumentSymbol(NameA, <<>>, kind, 0, 2,
               <<DocumentSymbol(NameB, <<>>, inner, 2, 2, <<>>)>>)>> :
             kind \in {SymbolKindClass, SymbolKindFunction, SymbolKindVariable,
                       SymbolKindProperty, SymbolKindField, 0, 27},
             inner \in SymbolKinds }

SourcePath == <<"/", "m", "/", "f", ".", "h">>

\* "/// d" / "" / "int A()": three lines, the second blank
SourceText == <<"/", "/", "/", " ", "d", "\n", "\n",
                "i", "n", "t", " ", "A", "(", ")", "\n">>

SourceFile == [readable |-> TRUE, path |-> SourcePath, text |-> SourceText]
EmptyFile == [readable |-> TRUE, path |-> SourcePath, text |-> <<>>]
MissingFile == [readable |-> FALSE, path |-> SourcePath, text |-> <<>>]
\* a file that exists and that os.Open fails on
UnreadableFile == [readable |-> FALSE, path |-> SourcePath, text |-> SourceText]

FlattenFiles == {SourceFile, EmptyFile, MissingFile, UnreadableFile}

----------------------------------------------------------------------------
\* SpecFlatten: ConvertSymbolsToChunks on every forest and file above.

IdleFlatten ==
    /\ symbols = <<>> /\ file = MissingFile /\ chunks = NilSlice /\ fpc = "idle"
IdleDoc ==
    /\ dLines = <<>> /\ dStart = 0 /\ dEnd = 0
    /\ dDoc = <<>> /\ dSnip = <<>> /\ dpc = "idle"
IdleTok == tIn = <<>> /\ tOut = NilSlice /\ tParts = <<>> /\ tpc = "idle"
IdleViews == vChunk = <<>> /\ vViews = <<>> /\ vpc = "idle"
IdleHum == hIn = <<>> /\ hOut = <<>> /\ hpc = "idle"
IdleFind == fsRoot = <<>> /\ found = NilSlice /\ findErr = FALSE /\ wpc = "idle"
IdleMain ==
    /\ files = <<>> /\ fileIdx = 0 /\ allChunks = NilSlice
    /\ successCount = 0 /\ errorCount = 0 /\ openDocs = {}
    /\ written = <<>> /\ writeErr = FALSE /\ stats = <<>> /\ logged = <<>>
    /\ pc = "idle"

InitFlatten ==
    /\ \/ symbols \in StructForests /\ file \in {SourceFile, UnreadableFile}
       \/ symbols \in RangeForests /\ file \in FlattenFiles
       \/ symbols \in KindForests /\ file = SourceFile
    /\ chunks = NilSlice
    /\ fpc = "call"
    /\ IdleDoc /\ IdleTok /\ IdleViews /\ IdleMain /\ IdleHum /\ IdleFind

Convert ==
    /\ fpc = "call"
    /\ chunks' = ConvertSymbolsToChunks(symbols, file)
    /\ fpc' = "returned"
    /\ UNCHANGED <<symbols, file, docVars, tokVars, viewVars, mainVars, humVars, findVars>>

NextFlatten == Convert

SpecFlatten == InitFlatten /\ [][NextFlatten]_vars

----------------------------------------------------------------------------
\* Properties of the flattener.  A node of a forest is named by its path:
\* the child indexes from a root down to it.

RECURSIVE PathsOf(_)
PathsOf(forest) ==
    UNION { { <<i>> } \cup { <<i>> \o q : q \in PathsOf(forest[i].Children) } :
            i \in DOMAIN forest }

RECURSIVE NodeAt(_, _)
NodeAt(forest, path) ==
    IF Len(path) = 1 THEN forest[path[1]]
    ELSE NodeAt(forest[path[1]].Children, Tail(path))

IsProperPrefix(a, b) == Len(a) < Len(b) /\ SubSeq(b, 1, Len(a)) = a

\* a is an ancestor of b, or lies in an earlier sibling subtree than b
PathBefore(a, b) ==
    \/ IsProperPrefix(a, b)
    \/ \E i \in 1..Len(a) :
         /\ i <= Len(b)
         /\ SubSeq(a, 1, i - 1) = SubSeq(b, 1, i - 1)
         /\ a[i] < b[i]

ExtractableKinds ==
    {SymbolKindFunction, SymbolKindMethod, SymbolKindClass, SymbolKindStruct,
     SymbolKindConstructor, SymbolKindEnum, SymbolKindInterface,
     SymbolKindNamespace}

ExtractablePaths(forest) ==
    { a \in PathsOf(forest) : NodeAt(forest, a).Kind \in ExtractableKinds }

\* The place in the chunk list that the order of the paths gives node a.
Rank(forest, a) ==
    Cardinality({ b \in ExtractablePaths(forest) : PathBefore(b, a) }) + 1

TableLabel(kind) ==
    CASE kind = SymbolKindFunction -> LabelFunction
      [] kind = SymbolKindMethod -> LabelMethod
      [] kind = SymbolKindClass -> LabelClass
      [] kind = SymbolKindStruct -> LabelStruct
      [] kind = SymbolKindConstructor -> LabelConstructor
      [] kind = SymbolKindEnum -> LabelEnum
      [] kind = SymbolKindInterface -> LabelInterface
      [] kind = SymbolKindNamespace -> LabelNamespace
      [] OTHER -> LabelUnknown

IsStructKind(kind) == kind \in {SymbolKindClass, SymbolKindStruct}

\* The lengths of the proper prefixes of a that name a Class or Struct.
StructAncestors(forest, a) ==
    { k \in 1..(Len(a) - 1) : IsStructKind(NodeAt(forest, SubSeq(a, 1, k)).Kind) }

NearestStructName(forest, a) ==
    LET anc == StructAncestors(forest, a)
    IN IF anc = {} THEN <<>>
       ELSE NodeAt(forest, SubSeq(a, 1, CHOOSE k \in anc : \A j \in anc : j <= k)).Name

\* C1: the number of chunks ConvertSymbolsToChunks returns is the number of
\* nodes of the forest, at any depth, whose kind is one of the eight
\* extractable kinds, also below a node that is not extracted.
C1_ChunkCount ==
    fpc = "returned" =>
        Len(chunks.elems) = Cardinality(ExtractablePaths(symbols))

\* an extractable node below a node that is not extracted, with a sibling
C1_Witness ==
    /\ fpc = "returned"
    /\ Len(chunks.elems) = 2
    /\ \E a \in ExtractablePaths(symbols) :
         /\ Len(a) = 2
         /\ NodeAt(symbols, SubSeq(a, 1, 1)).Kind = SymbolKindVariable
         /\ NodeAt(symbols, a).Kind = SymbolKindStruct

\* C2: the chunk list is in depth-first pre-order: the chunk of a node
\* stands at the place that counts the extractable nodes that are its
\* ancestors or lie in earlier sibling subtrees, so an ancestor's chunk
\* precedes a descendant's and an earlier sibling's subtree comes first.
C2_PreOrder ==
    fpc = "returned" =>
        \A a \in ExtractablePaths(symbols) :
            /\ Rank(symbols, a) <= Len(chunks.elems)
            /\ chunks.elems[Rank(symbols, a)].Name = NodeAt(symbols, a).Name
            /\ chunks.elems[Rank(symbols, a)].CodeType
                   = TableLabel(NodeAt(symbols, a).Kind)

\* a parent with a child, and a later root, all extracted, told apart by
\* name or kind
C2_Witness ==
    /\ fpc = "returned"
    /\ Len(chunks.elems) = 3
    /\ <<1, 1>> \in ExtractablePaths(symbols)
    /\ <<2>> \in ExtractablePaths(symbols)
    /\ NodeAt(symbols, <<1>>).Name = NameA
    /\ NodeAt(symbols, <<1, 1>>).Name = NameB
    /\ NodeAt(symbols, <<2>>).Name = NameA
    /\ NodeAt(symbols, <<2>>).Kind # NodeAt(symbols, <<1>>).Kind

\* C3: the struct_name of every chunk is the name of the nearest proper
\* ancestor of its node whose kind is Class or Struct, and empty when there
\* is none; a Class or Struct node's own chunk carries the enclosing name.
C3_StructName ==
    fpc = "returned" =>
        \A a \in ExtractablePaths(symbols) :
            /\ Rank(symbols, a) <= Len(chunks.elems)
            /\ chunks.elems[Rank(symbols, a)].Context.StructName
                   = NearestStructName(symbols, a)

\* Class A > Struct B > Function: the function's chunk names B, the
\* struct's own chunk names A
C3_Witness ==
    /\ fpc = "returned"
    /\ Len(chunks.elems) = 3
    /\ <<1, 1, 1>> \in PathsOf(symbols)
    /\ NodeAt(symbols, <<1>>).Kind = SymbolKindClass
    /\ NodeAt(symbols, <<1>>).Name = NameA
    /\ NodeAt(symbols, <<1, 1>>).Kind = SymbolKindStruct
    /\ NodeAt(symbols, <<1, 1>>).Name = NameB
    /\ NodeAt(symbols, <<1, 1, 1>>).Kind = SymbolKindFunction
    /\ chunks.elems[2].Context.StructName = NameA
    /\ chunks.elems[3].Context.StructName = NameB

----------------------------------------------------------------------------
\* SpecDoc: extractDocstring and extractSnippet on every choice of source
\* lines and of line range.

\* A blank line, two documentation lines (one indented, with trailing
\* space), a documentation line without text, and a plain comment.
BlankLine == <<" ">>
DocLineA == <<"/", "/", "/", " ", "a">>
DocLineB == <<"\t", "/", "/", "!", "b", " ">>
DocLineEmpty == <<"/", "/", "/">>
PlainComment == <<"/", "/", " ", "n">>

LineChoices == {BlankLine, DocLineA, DocLineB, DocLineEmpty, PlainComment}

\* The sequences over S of length n.
SeqsOfLen(S, n) == [1..n -> S]
SeqsUpTo(S, n) == UNION { SeqsOfLen(S, k) : k \in 0..n }

InitDoc ==
    /\ dLines \in SeqsUpTo(LineChoices, MaxLines)
    /\ dStart \in (-1)..(MaxLines + 1)
    /\ dEnd \in (-1)..(MaxLines + 1)
    /\ dDoc = <<>> /\ dSnip = <<>>
    /\ dpc = "call"
    /\ IdleFlatten /\ IdleTok /\ IdleViews /\ IdleMain /\ IdleHum /\ IdleFind

\* docstring := extractDocstring(symbol, fileLines)
ExtractDoc ==
    /\ dpc = "call"
    /\ dDoc' = extractDocstringAt(dStart, dLines)
    /\ dpc' = "doc"
    /\ UNCHANGED <<dLines, dStart, dEnd, dSnip,
                   flattenVars, tokVars, viewVars, mainVars, humVars, findVars>>

\* snippet := extractSnippet(symbol.Range, fileLines)
ExtractSnip ==
    /\ dpc = "doc"
    /\ dSnip' = extractSnippetLines(dStart, dEnd, dLines)
    /\ dpc' = "returned"
    /\ UNCHANGED <<dLines, dStart, dEnd, dDoc,
                   flattenVars, tokVars, viewVars, mainVars, humVars, findVars>>

NextDoc == ExtractDoc \/ ExtractSnip

SpecDoc == InitDoc /\ [][NextDoc]_vars

\* A line as the scan reads it.
IsDocLine(l) ==
    HasPrefix(TrimSpace(l), DocPrefix3) \/ HasPrefix(TrimSpace(l), DocPrefixBang)
IsBlankLine(l) == TrimSpace(l) = <<>>
\* a documentation line with its three-character prefix and the space
\* around the rest removed
DocText(l) == TrimSpace(SubSeq(TrimSpace(l), 4, Len(TrimSpace(l))))

\* The 0-indexed line the upward scan from s - 1 stops at, -1 if none.
StopLine(lines, s) ==
    LET others == { i \in 0..(s - 1) :
                      ~IsDocLine(lines[i + 1]) /\ ~IsBlankLine(lines[i + 1]) }
    IN IF others = {} THEN -1 ELSE CHOOSE i \in others : \A j \in others : j <= i

\* The documentation lines strictly between the stopping line and s.
CollectedLines(lines, s) ==
    { i \in (StopLine(lines, s) + 1)..(s - 1) : IsDocLine(lines[i + 1]) }

\* The texts of the lines of I, top-down, each followed by a space.
RECURSIVE TextsTopDown(_, _)
TextsTopDown(lines, I) ==
    IF I = {} THEN <<>>
    ELSE LET i == CHOOSE k \in I : \A j \in I : k <= j
         IN DocText(lines[i + 1]) \o <<" ">> \o TextsTopDown(lines, I \ {i})

ExpectedDocstring(lines, s) ==
    IF s <= 0 \/ s > Len(lines) \/ CollectedLines(lines, s) = {} THEN <<>>
    ELSE LET t == TextsTopDown(lines, CollectedLines(lines, s))
         IN SubSeq(t, 1, Len(t) - 1)

\* C7: extractDocstring returns empty when the start line is 0 or exceeds
\* the number of lines; otherwise the texts of the documentation lines
\* between the first non-blank, non-documentation line above the symbol and
\* the symbol, top-down, joined by single spaces.
C7_Docstring ==
    dpc \in {"doc", "returned"} => dDoc = ExpectedDocstring(dLines, dStart)

\* "// n", "/// a", " ", "\t//!b " and a symbol at line 4: a b
C7_Witness ==
    /\ dpc = "doc"
    /\ dLines = <<PlainComment, DocLineA, BlankLine, DocLineB>>
    /\ dStart = 4
    /\ dDoc = <<"a", " ", "b">>

\* s cut at every occurrence of the character c
RECURSIVE SplitEach(_, _, _)
SplitEach(s, c, cur) ==
    IF s = <<>> THEN <<cur>>
    ELSE IF Head(s) = c THEN <<cur>> \o SplitEach(Tail(s), c, <<>>)
    ELSE SplitEach(Tail(s), c, Append(cur, Head(s)))

ValidRange(lines, s, e) == 0 <= s /\ s <= e /\ e < Len(lines)

\* C8: extractSnippet returns the lines start..end joined by newline when
\* 0 <= start <= end < number of lines, and the empty string, without a
\* failure, for every other range.
C8_Snippet ==
    dpc = "returned" =>
        IF ValidRange(dLines, dStart, dEnd)
        THEN /\ dSnip # Panic
             /\ SplitEach(dSnip, "\n", <<>>)
                    = [i \in 1..(dEnd - dStart + 1) |-> dLines[dStart + i]]
        ELSE dSnip = <<>>

\* a range of two lines inside four
C8_Witness ==
    /\ dpc = "returned"
    /\ Len(dLines) = 4 /\ dStart = 1 /\ dEnd = 2
    /\ dLines[2] = DocLineA /\ dLines[3] = PlainComment
    /\ dSnip = DocLineA \o <<"\n">> \o PlainComment

\* a range that ends at the number of lines: empty
C8_WitnessInvalid ==
    /\ dpc = "returned"
    /\ Len(dLines) = 2 /\ dStart = 1 /\ dEnd = 2
    /\ dSnip = <<>>

----------------------------------------------------------------------------
\* Properties of the chunks that rest on the source lines (SpecFlatten).

\* The fields of the chunk of node a that do not come from the snippet.
FieldsWithoutSnippet(forest, a, lines, c) ==
    LET n == NodeAt(forest, a)
    IN /\ c.Name = n.Name
       /\ c.Signature = (IF n.Detail = <<>> THEN n.Name ELSE n.Detail)
       /\ c.CodeType = TableLabel(n.Kind)
       /\ c.Docstring = ExpectedDocstring(lines, n.Range.Start.Line)
       /\ c.Line = n.Range.Start.Line + 1
       /\ c.LineFrom = n.Range.Start.Line + 1
       /\ c.LineTo = n.Range.End.Line + 1
       /\ c.Context.StructName = NearestStructName(forest, a)

\* C9: a chunk with a non-empty snippet has line_from <= line_to; a node
\* with an invalid range still yields its chunk, with an empty snippet and
\* every other field as it is computed without regard to the snippet.
C9_SnippetRange ==
    fpc = "returned" =>
        /\ \A i \in DOMAIN chunks.elems :
             chunks.elems[i].Context.Snippet # <<>> =>
                 chunks.elems[i].LineFrom <= chunks.elems[i].LineTo
        /\ \A a \in ExtractablePaths(symbols) :
             LET n == NodeAt(symbols, a)
                 lines == readFileLines(file)
             IN /\ Rank(symbols, a) <= Len(chunks.elems)
                /\ FieldsWithoutSnippet(symbols, a, lines,
                                        chunks.elems[Rank(symbols, a)])
                /\ ~ValidRange(lines, n.Range.Start.Line, n.Range.End.Line)
                     => chunks.elems[Rank(symbols, a)].Context.Snippet = <<>>

\* a function whose range ends before it starts, in a file of three lines:
\* its chunk has the docstring and the line numbers, and no snippet
C9_Witness ==
    /\ fpc = "returned"
    /\ file = SourceFile
    /\ Len(symbols) = 1
    /\ symbols[1].Kind = SymbolKindFunction
    /\ symbols[1].Range.Start.Line = 2 /\ symbols[1].Range.End.Line = 1
    /\ Len(chunks.elems) = 1
    /\ chunks.elems[1].Docstring = <<"d">>
    /\ chunks.elems[1].LineFrom = 3 /\ chunks.elems[1].LineTo = 2
    /\ chunks.elems[1].Context.Snippet = <<>>

\* the same function with the valid range 2..2 has its line as snippet
C9_WitnessValid ==
    /\ fpc = "returned"
    /\ file = SourceFile
    /\ Len(symbols) = 1
    /\ symbols[1].Kind = SymbolKindFunction
    /\ symbols[1].Range.Start.Line = 2 /\ symbols[1].Range.End.Line = 2
    /\ Len(chunks.elems) = 1
    /\ chunks.elems[1].Context.Snippet = <<"i", "n", "t", " ", "A", "(", ")">>

----------------------------------------------------------------------------
\* package nl: Humanize, Subtokenize, TokenizeForText and BuildViews.

\* strings.NewReplacer("::", " ", "->", " ", ".", " ").Replace: one pass from
\* the left, the first pair that matches at a position wins.
RECURSIVE replSeparators(_)
replSeparators(s) ==
    IF s = <<>> THEN <<>>
    ELSE IF HasPrefix(s, <<":", ":">>) \/ HasPrefix(s, <<"-", ">">>)
         THEN <<" ">> \o replSeparators(SubSeq(s, 3, Len(s)))
    ELSE IF Head(s) = "."
         THEN <<" ">> \o replSeparators(Tail(s))
    ELSE <<Head(s)>> \o replSeparators(Tail(s))

\* camelcase.Split: the class of a character
camelClass(c) ==
    IF IsLower(c) THEN 1 ELSE IF IsUpper(c) THEN 2 ELSE IF IsDigit(c) THEN 3 ELSE 4

\* camelcase.Split, first loop: the runs of characters of one class
RECURSIVE camelRuns(_, _, _)
camelRuns(src, runes, lastClass) ==
    IF src = <<>> THEN runes
    ELSE LET class == camelClass(Head(src))
         IN IF class = lastClass
            THEN camelRuns(Tail(src),
                     [runes EXCEPT ![Len(runes)] = Append(@, Head(src))], class)
            ELSE camelRuns(Tail(src), Append(runes, <<Head(src)>>), class)

\* camelcase.Split without its second loop
camelFixNone(runes, i) == runes

\* camelcase.Split, second loop at index i (1-indexed): the last letter of
\* an uppercase run moves to the lowercase run that follows it
RECURSIVE camelFix(_, _)
camelFix(runes, i) ==
    IF i > Len(runes) - 1 THEN runes
    ELSE IF IsUpper(runes[i][1]) /\ IsLower(runes[i + 1][1])
         THEN camelFix([runes EXCEPT
                          ![i + 1] = <<runes[i][Len(runes[i])]>> \o @,
                          ![i] = SubSeq(@, 1, Len(@) - 1)], i + 1)
         ELSE camelFix(runes, i + 1)

camelcaseSplit(src) == filterEmpty(camelFix(camelRuns(src, <<>>, 0), 1))

\* Humanize with each part split at its case transitions as well
HumanizeCamel(s) ==
    IF s = <<>> THEN s
    ELSE LET parts == splitAlphaNum(replSeparators(s))
             pieces == [i \in DOMAIN parts |-> Join(camelcaseSplit(parts[i]), <<" ">>)]
         IN Join(filterEmpty(pieces), <<" ">>)

Humanize(s) ==
    IF s = <<>> THEN s
    ELSE LET parts == splitAlphaNum(replSeparators(s))
         IN Join(filterEmpty([i \in DOMAIN parts |-> TrimSpace(parts[i])]), <<" ">>)

\* the sequences of ss one after the other
RECURSIVE Concat(_)
Concat(ss) == IF ss = <<>> THEN <<>> ELSE Head(ss) \o Concat(Tail(ss))

\* strings.FieldsFunc(tok, r == '_')
underscoreFields(tok) == filterEmpty(SplitRuns(tok, "_"))

\* parts := camelcase.Split(u) for each sub-part u of each raw token
RECURSIVE subtokCamelPartsOf(_)
subtokCamelPartsOf(us) ==
    IF us = <<>> THEN <<>>
    ELSE <<[u |-> Head(us), parts |-> camelcaseSplit(Head(us))]>>
         \o subtokCamelPartsOf(Tail(us))

subtokCamelParts(s) ==
    IF s = <<>> THEN <<>>
    ELSE LET rawTokens == splitAlphaNum(replSeparators(s))
         IN subtokCamelPartsOf(
                Concat([i \in DOMAIN rawTokens |-> underscoreFields(rawTokens[i])]))

\* add of Subtokenize without the test of the seen set
subtokAddNoSeen(st, t) ==
    IF t = <<>> THEN st
    ELSE [seen |-> st.seen \cup {t}, out |-> Append(st.out, t)]

\* The closure add of Subtokenize on the pair (seen, out).
subtokAdd(st, t) ==
    IF t = <<>> THEN st
    ELSE IF t \in st.seen THEN st
    ELSE [seen |-> st.seen \cup {t}, out |-> Append(st.out, t)]

\* for _, p := range parts { add(p); add(strings.ToLower(p)) }
RECURSIVE subtokParts(_, _)
subtokParts(parts, st) ==
    IF parts = <<>> THEN st
    ELSE subtokParts(Tail(parts),
             subtokAdd(subtokAdd(st, Head(parts)), ToLower(Head(parts))))

\* for _, u := range strings.FieldsFunc(tok, ...)
RECURSIVE subtokFields(_, _)
subtokFields(us, st) ==
    IF us = <<>> THEN st
    ELSE IF Head(us) = <<>> THEN subtokFields(Tail(us), st)
    ELSE subtokFields(Tail(us), subtokParts(camelcaseSplit(Head(us)), st))

\* for _, tok := range rawTokens
RECURSIVE subtokTokens(_, _)
subtokTokens(rawTokens, st) ==
    IF rawTokens = <<>> THEN st
    ELSE LET tok == Head(rawTokens)
             st1 == subtokAdd(subtokAdd(st, tok), ToLower(tok))
         IN subtokTokens(Tail(rawTokens), subtokFields(underscoreFields(tok), st1))

Subtokenize(s) ==
    IF s = <<>> THEN NilSlice
    ELSE [isNil |-> FALSE,
          elems |-> subtokTokens(splitAlphaNum(replSeparators(s)),
                                 [seen |-> {}, out |-> <<>>]).out]

TokenizeForText(s) == Join(filterEmpty(SplitRuns(s, "W")), <<" ">>)

StrThatDoes == <<"t", "h", "a", "t", " ", "d", "o", "e", "s", " ">>
StrDefinedAs == <<"d", "e", "f", "i", "n", "e", "d", " ", "a", "s">>
StrModule == <<"m", "o", "d", "u", "l", "e">>
StrFile == <<"f", "i", "l", "e">>
StrOriginalName == <<"o", "r", "i", "g", "i", "n", "a", "l", "_", "n", "a", "m", "e">>
StrOriginalSignature == <<"o", "r", "i", "g", "i", "n", "a", "l", "_", "s", "i", "g", "n", "a", "t", "u", "r", "e">>
StrIdentifiers == <<"i", "d", "e", "n", "t", "i", "f", "i", "e", "r", "s">>

\* docPart with the phrase added for an empty docstring too
docPartAlways(doc) == StrThatDoes \o doc \o <<" ">>

docPartOf(doc) ==
    IF doc # <<>> THEN StrThatDoes \o doc \o <<" ">> ELSE <<>>

\* fmt.Sprintf of the summary, trimmed
summaryOf(c, identTokens) ==
    TrimSpace(
        TrimSpace(c.CodeType) \o <<" ">>
        \o TrimSpace(Humanize(c.Name)) \o <<" ">>
        \o docPartOf(TrimSpace(c.Docstring))
        \o StrDefinedAs \o <<" ">>
        \o TrimSpace(Humanize(c.Signature)) \o <<" ">>
        \o StrModule \o <<" ">>
        \o TrimSpace(c.Context.Module) \o <<" ">>
        \o StrFile \o <<" ">>
        \o TrimSpace(c.Context.FileName) \o <<" ">>
        \o StrOriginalName \o <<" ">>
        \o TrimSpace(c.Name) \o <<" ">>
        \o StrOriginalSignature \o <<" ">>
        \o TrimSpace(c.Signature) \o <<" ">>
        \o StrIdentifiers \o <<" ">>
        \o Join(identTokens.elems, <<" ">>))

\* the code view with each part trimmed on its own
codeViewPerPart(sigRaw, snippet) ==
    TrimSpace(sigRaw) \o <<"\n">> \o TrimSpace(snippet)

codeViewOf(sigRaw, snippet) == TrimSpace(sigRaw \o <<"\n">> \o snippet)

BuildViews(c) ==
    LET identTokens == Subtokenize(c.Name)
    IN [TextView |-> TokenizeForText(summaryOf(c, identTokens)),
        CodeView |-> codeViewOf(c.Signature, c.Context.Snippet),
        IdentTokens |-> identTokens]

----------------------------------------------------------------------------
\* SpecTok: Subtokenize on every string of up to MaxLen characters.

\* A lowercase letter, two uppercase letters, a digit, the underscore and
\* two of the separators.
TokAlphabet == {"a", "A", "B", "1", "_", ":", "."}

InitTok ==
    /\ tIn \in SeqsUpTo(TokAlphabet, MaxLen)
    /\ tOut = NilSlice
    /\ tParts = <<>>
    /\ tpc = "call"
    /\ IdleFlatten /\ IdleDoc /\ IdleViews /\ IdleMain /\ IdleHum /\ IdleFind

\* identTokens := Subtokenize(nameRaw); tParts holds, for each sub-part u
\* in the order the loops reach it, the value of parts
CallSubtokenize ==
    /\ tpc = "call"
    /\ tOut' = Subtokenize(tIn)
    /\ tParts' = subtokCamelParts(tIn)
    /\ tpc' = "returned"
    /\ UNCHANGED <<tIn, flattenVars, docVars, viewVars, mainVars, humVars, findVars>>

NextTok == CallSubtokenize

SpecTok == InitTok /\ [][NextTok]_vars

\* c is kept by the run class: "word" keeps letters, digits and the
\* underscore, "part" keeps everything but the underscore
KeptBy(cls, c) == IF cls = "word" THEN IsWordChar(c) ELSE c # "_"

\* The maximal runs of characters of s that the class keeps, in order.
MaximalRuns(s, cls) ==
    LET n == Len(s)
        firsts == { i \in 1..n : KeptBy(cls, s[i]) /\ (i = 1 \/ ~KeptBy(cls, s[i - 1])) }
        lasts == { i \in 1..n : KeptBy(cls, s[i]) /\ (i = n \/ ~KeptBy(cls, s[i + 1])) }
        from == Ascending(firsts)
        to == Ascending(lasts)
    IN [k \in DOMAIN from |-> SubSeq(s, from[k], to[k])]


\* What one raw token emits: itself, its lowercase form, then for each
\* sub-part between underscores each camel piece and its lowercase form.
EmittedByToken(tok) ==
    LET subs == MaximalRuns(tok, "part")
        ofSub(u) == LET ps == camelcaseSplit(u)
                    IN Concat([k \in DOMAIN ps |-> <<ps[k], ToLower(ps[k])>>])
    IN <<tok, ToLower(tok)>> \o Concat([k \in DOMAIN subs |-> ofSub(subs[k])])

\* The generation sequence of a string.
Emitted(s) ==
    LET toks == MaximalRuns(s, "word")
    IN Concat([k \in DOMAIN toks |-> EmittedByToken(toks[k])])

\* seq with every element that occurred earlier in it removed
KeepFirst(seq) ==
    LET firsts == { i \in DOMAIN seq : \A j \in 1..(i - 1) : seq[j] # seq[i] }
        order == Ascending(firsts)
    IN [k \in DOMAIN order |-> seq[order[k]]]

NoDuplicates(seq) ==
    \A i \in DOMAIN seq : \A j \in DOMAIN seq : i # j => seq[i] # seq[j]

\* C6: Subtokenize returns the generation sequence (each raw token, its
\* lowercase form, then each camel piece of each underscore sub-part and its
\* lowercase form) with later duplicates removed: no entry occurs twice and
\* the order is that of first emission.
C6_Subtokenize ==
    tpc = "returned" =>
        /\ tOut.elems = KeepFirst(Emitted(tIn))
        /\ NoDuplicates(tOut.elems)

\* "A_a:": the pieces A and a of the sub-parts are emitted once each
C6_Witness ==
    /\ tpc = "returned"
    /\ tIn = <<"A", "_", "a", ":">>
    /\ tOut.elems = << <<"A", "_", "a">>, <<"a", "_", "a">>, <<"A">>, <<"a">> >>

----------------------------------------------------------------------------
\* SpecViews: BuildViews on chunks whose fields carry scope separators,
\* punctuation and surrounding whitespace.

ViewNames == { <<>>, <<"A">>, <<"a", ":", ":", "B">>, <<"A", "b", ".", "c", "_", "d">> }
ViewSignatures == { <<>>, <<"A">>, <<" ", "A", " ">>, <<"f", "(", "x", ")", " ">>, <<"a", "-", ">", "b">> }
ViewDocstrings == { <<>>, <<" ">>, <<"d">>, <<"d", " ", "e", ".">> }
ViewSnippets == { <<>>, <<"x">>, <<" ", "x", "\n">>, <<"\n", "x", " ", "y">> }
ViewModule == <<"m", "-", "1">>
ViewFileName == <<"f", ".", "h">>

ViewChunks ==
    { [Name |-> n, Signature |-> sg, CodeType |-> ct, Docstring |-> d,
       Line |-> 1, LineFrom |-> 1, LineTo |-> 1,
       Context |-> [Module |-> ViewModule, FilePath |-> <<"/">> \o ViewModule \o <<"/">> \o ViewFileName,
                    FileName |-> ViewFileName, StructName |-> <<>>,
                    Snippet |-> sn]] :
        n \in ViewNames, sg \in ViewSignatures, ct \in {LabelMethod, LabelClass},
        d \in ViewDocstrings, sn \in ViewSnippets }

NoViews == [TextView |-> <<>>, CodeView |-> <<>>, IdentTokens |-> NilSlice]

InitViews ==
    /\ vChunk \in ViewChunks
    /\ vViews = NoViews
    /\ vpc = "call"
    /\ IdleFlatten /\ IdleDoc /\ IdleTok /\ IdleMain /\ IdleHum /\ IdleFind

\* v := BuildViews(chunk)
CallBuildViews ==
    /\ vpc = "call"
    /\ vViews' = BuildViews(vChunk)
    /\ vpc' = "returned"
    /\ UNCHANGED <<vChunk, flattenVars, docVars, tokVars, mainVars, humVars, findVars>>

NextViews == CallBuildViews

SpecViews == InitViews /\ [][NextViews]_vars

----------------------------------------------------------------------------
\* Properties of BuildViews.

AllSpace(s) == \A i \in DOMAIN s : IsSpace(s[i])

\* t is s without the whitespace at its two ends
IsTrimOf(t, s) ==
    /\ t = <<>> \/ (~IsSpace(t[1]) /\ ~IsSpace(t[Len(t)]))
    /\ \E i \in 0..Len(s) :
         /\ i + Len(t) <= Len(s)
         /\ AllSpace(SubSeq(s, 1, i))
         /\ SubSeq(s, i + 1, i + Len(t)) = t
         /\ AllSpace(SubSeq(s, i + Len(t) + 1, Len(s)))

\* s without the whitespace at its two ends, by position
Trimmed(s) ==
    LET solid == { i \in DOMAIN s : ~IsSpace(s[i]) }
    IN IF solid = {} THEN <<>>
       ELSE SubSeq(s, CHOOSE i \in solid : \A j \in solid : i <= j,
                      CHOOSE i \in solid : \A j \in solid : j <= i)

\* C4 as claimed: code_view is trim(signature), a newline, trim(snippet),
\* each part trimmed separately.
C4_TrimEachPart ==
    vpc = "returned" =>
        vViews.CodeView = Trimmed(vChunk.Signature) \o <<"\n">>
                              \o Trimmed(vChunk.Context.Snippet)

\* C4, amended: code_view is signature, a newline and snippet joined and
\* then trimmed as one string: it has no whitespace at its ends, and the
\* joined string is code_view with whitespace alone before and after it.
C4_TrimWhole ==
    vpc = "returned" =>
        IsTrimOf(vViews.CodeView,
                 vChunk.Signature \o <<"\n">> \o vChunk.Context.Snippet)

\* signature "f(x) " and snippet " x\n": the inner whitespace stays
C4_Witness ==
    /\ vpc = "returned"
    /\ vChunk.Signature = <<"f", "(", "x", ")", " ">>
    /\ vChunk.Context.Snippet = <<" ", "x", "\n">>
    /\ vViews.CodeView = <<"f", "(", "x", ")", " ", "\n", " ", "x">>

\* The words of a string: its maximal runs of letters, digits, underscores.
WordsOf(s) == MaximalRuns(s, "word")

\* The words of the summary, fragment by fragment in the fixed order, with
\* the docstring fragment when withDoc holds.
SummaryWords(c, tokens, withDoc) ==
    WordsOf(c.CodeType)
    \o WordsOf(Humanize(c.Name))
    \o (IF withDoc THEN <<<<"t","h","a","t">>, <<"d","o","e","s">>>> \o WordsOf(c.Docstring)
        ELSE <<>>)
    \o <<<<"d","e","f","i","n","e","d">>, <<"a","s">>>>
    \o WordsOf(Humanize(c.Signature))
    \o <<StrModule>> \o WordsOf(c.Context.Module)
    \o <<StrFile>> \o WordsOf(c.Context.FileName)
    \o <<StrOriginalName>> \o WordsOf(c.Name)
    \o <<StrOriginalSignature>> \o WordsOf(c.Signature)
    \o <<StrIdentifiers>> \o Concat([k \in DOMAIN tokens |-> WordsOf(tokens[k])])

\* words joined by single spaces
RECURSIVE Spaced(_)
Spaced(ws) ==
    IF ws = <<>> THEN <<>>
    ELSE IF Len(ws) = 1 THEN ws[1]
    ELSE ws[1] \o <<" ">> \o Spaced(Tail(ws))

\* text holds only letters, digits, underscores and single separating
\* spaces, and the word original_name before the word original_signature
PlainWords(text) ==
    LET ws == WordsOf(text)
    IN /\ \A i \in DOMAIN text : IsWordChar(text[i]) \/ text[i] = " "
       /\ \A i \in DOMAIN text :
            text[i] = " " => /\ 1 < i /\ i < Len(text)
                             /\ text[i + 1] # " "
       /\ \E i \in DOMAIN ws : \E j \in DOMAIN ws :
            /\ i < j
            /\ ws[i] = StrOriginalName
            /\ ws[j] = StrOriginalSignature

\* C10 as claimed: text_view is the words of the summary in the fixed
\* order, with "that does <docstring>" exactly when the docstring is
\* non-empty.
C10_DocWhenNonEmpty ==
    vpc = "returned" =>
        /\ vViews.TextView
               = Spaced(SummaryWords(vChunk, vViews.IdentTokens.elems,
                                     vChunk.Docstring # <<>>))
        /\ PlainWords(vViews.TextView)

\* C10, amended: the fragment "that does <docstring>" is there exactly
\* when the docstring is non-empty after trimming whitespace.
C10_DocWhenNotBlank ==
    vpc = "returned" =>
        /\ vViews.TextView
               = Spaced(SummaryWords(vChunk, vViews.IdentTokens.elems,
                                     ~AllSpace(vChunk.Docstring)))
        /\ PlainWords(vViews.TextView)

\* a docstring "d e." and a scoped name: the fragment is there
C10_Witness ==
    /\ vpc = "returned"
    /\ vChunk.Name = <<"a", ":", ":", "B">>
    /\ vChunk.Docstring = <<"d", " ", "e", ".">>
    /\ LET ws == WordsOf(vViews.TextView)
       IN \E i \in DOMAIN ws :
            /\ i + 3 <= Len(ws)
            /\ SubSeq(ws, i, i + 3)
                 = << <<"t","h","a","t">>, <<"d","o","e","s">>, <<"d">>, <<"e">> >>

\* a docstring of one space: no fragment
C10_WitnessBlank ==
    /\ vpc = "returned"
    /\ vChunk.Docstring = <<" ">>
    /\ LET ws == WordsOf(vViews.TextView)
       IN \A i \in DOMAIN ws : ws[i] # <<"d","o","e","s">>

----------------------------------------------------------------------------
\* package output: WriteJSON, WriteJSONCompact and GetOutputStats.

\* encoding/json on a slice: a nil slice encodes as null, any other slice
\* as an array of its elements; MarshalIndent differs in the layout only.
Marshal(slice, indent) ==
    IF slice.isNil
    THEN [kind |-> "null", elems |-> <<>>, indent |-> indent]
    ELSE [kind |-> "array", elems |-> slice.elems, indent |-> indent]

NotWritten == [kind |-> "none", elems |-> <<>>, indent |-> FALSE]

\* The file WriteJSON leaves (ioOk: MkdirAll and WriteFile succeed).
WriteJSON(slice, ioOk, before) ==
    IF ioOk THEN Marshal(slice, TRUE) ELSE before

WriteJSONCompact(slice, ioOk, before) ==
    IF ioOk THEN Marshal(slice, FALSE) ELSE before

GetOutputStats(slice) ==
    LET cs == slice.elems
        types == { cs[i].CodeType : i \in DOMAIN cs }
    IN [total_chunks |-> Len(cs),
        by_type |-> [t \in types |->
                        Cardinality({ i \in DOMAIN cs : cs[i].CodeType = t })],
        with_docstring |-> Cardinality({ i \in DOMAIN cs : cs[i].Docstring # <<>> })]

----------------------------------------------------------------------------
\* Spec: the pipeline of main in cmd/clangd-parser.

HeaderFile == [readable |-> TRUE, path |-> <<"/", "m", "/", "f", ".", "h">>,
               text |-> SourceText]
BlankFile == [readable |-> TRUE, path |-> <<"/", "m", "/", "e", ".", "h">>,
              text |-> <<>>]
GoneFile == [readable |-> FALSE, path |-> <<"/", "m", "/", "g", ".", "h">>,
             text |-> <<>>]

PipelineFiles == {HeaderFile, BlankFile, GoneFile}

\* What clangd may answer for a file: no symbol, a variable, a function, a
\* class with a method.
PipelineForests ==
    { <<>>,
      <<DocumentSymbol(NameA, <<>>, SymbolKindVariable, 2, 2, <<>>)>>,
      <<DocumentSymbol(NameA, <<>>, SymbolKindFunction, 2, 2, <<>>)>>,
      <<DocumentSymbol(NameA, <<>>, SymbolKindClass, 0, 2,
            <<DocumentSymbol(NameB, <<>>, SymbolKindMethod, 2, 2, <<>>)>>)>> }

\* The lists of distinct files FindCppFiles (or -test-file) hands to the loop.
FileLists ==
    { fs \in SeqsUpTo(PipelineFiles, MaxFiles) :
        \A i \in DOMAIN fs : \A j \in DOMAIN fs : i # j => fs[i] # fs[j] }

Init ==
    /\ files \in FileLists
    /\ fileIdx = 0
    /\ allChunks = NilSlice
    /\ successCount = 0 /\ errorCount = 0
    /\ openDocs = {}
    /\ written = NotWritten /\ writeErr = FALSE
    /\ stats = <<>>
    /\ logged = <<>>
    /\ pc = "start"
    /\ IdleFlatten /\ IdleDoc /\ IdleTok /\ IdleViews /\ IdleHum /\ IdleFind

\* lsp.NewClient: clangd starts and answers initialize, or main exits
StartClient ==
    /\ pc = "start"
    /\ \E ok \in BOOLEAN : pc' = IF ok THEN "loop" ELSE "fatal"
    /\ UNCHANGED <<files, fileIdx, allChunks, successCount, errorCount,
                   openDocs, written, writeErr, stats, logged,
                   flattenVars, docVars, tokVars, viewVars, humVars, findVars>>

\* The ways GetDocumentSymbols fails for file f, each with the documents it
\* leaves open on the server: the file cannot be read; didOpen cannot be
\* sent; the documentSymbol call fails or times out after didOpen was sent.
SymbolFailures(f) ==
    IF ~f.readable THEN { [err |-> "read file", open |-> {}] }
    ELSE { [err |-> "didOpen", open |-> {}],
           [err |-> "documentSymbol", open |-> {f.path}] }

\* A turn of the loop in which GetDocumentSymbols returns an error, with the
\* loop left at the first failure
ProcessFileFailedBreaks ==
    /\ pc = "loop" /\ fileIdx < Len(files)
    /\ \E fail \in SymbolFailures(files[fileIdx + 1]) :
         /\ openDocs' = openDocs \cup fail.open
         /\ logged' = Append(logged, [file |-> files[fileIdx + 1].path,
                                      warning |-> fail.err, created |-> 0])
    /\ errorCount' = errorCount + 1
    /\ fileIdx' = Len(files)
    /\ UNCHANGED <<files, allChunks, successCount, written, writeErr, stats, pc,
                   flattenVars, docVars, tokVars, viewVars, humVars, findVars>>

\* One turn of the loop in which GetDocumentSymbols returns an error: the
\* warning is logged, the error counted and the loop continues.
ProcessFileFailed ==
    /\ pc = "loop" /\ fileIdx < Len(files)
    /\ \E fail \in SymbolFailures(files[fileIdx + 1]) :
         /\ openDocs' = openDocs \cup fail.open
         /\ logged' = Append(logged, [file |-> files[fileIdx + 1].path,
                                      warning |-> fail.err, created |-> 0])
    /\ errorCount' = errorCount + 1
    /\ fileIdx' = fileIdx + 1
    /\ UNCHANGED <<files, allChunks, successCount, written, writeErr, stats, pc,
                   flattenVars, docVars, tokVars, viewVars, humVars, findVars>>

\* One turn of the loop in which GetDocumentSymbols returns symbols: the
\* document was opened and closed, the symbols are converted and appended,
\* and the number of chunks created is logged.
ProcessFileConverted ==
    /\ pc = "loop" /\ fileIdx < Len(files)
    /\ files[fileIdx + 1].readable
    /\ \E syms \in PipelineForests :
         LET new == ConvertSymbolsToChunks(syms, files[fileIdx + 1])
         IN /\ allChunks' = AppendAll(allChunks, new)
            /\ logged' = Append(logged, [file |-> files[fileIdx + 1].path,
                                         warning |-> "",
                                         created |-> Len(new.elems)])
    /\ successCount' = successCount + 1
    /\ fileIdx' = fileIdx + 1
    /\ UNCHANGED <<files, errorCount, openDocs, written, writeErr, stats, pc,
                   flattenVars, docVars, tokVars, viewVars, humVars, findVars>>

\* Step 4: WriteJSON or WriteJSONCompact; a failure ends main (log.Fatalf).
WriteOutput ==
    /\ pc = "loop" /\ fileIdx = Len(files)
    /\ \E compact \in BOOLEAN, ioOk \in BOOLEAN :
         /\ written' = IF compact THEN WriteJSONCompact(allChunks, ioOk, written)
                       ELSE WriteJSON(allChunks, ioOk, written)
         /\ writeErr' = ~ioOk
         /\ pc' = IF ioOk THEN "stats" ELSE "fatal"
    /\ UNCHANGED <<files, fileIdx, allChunks, successCount, errorCount,
                   openDocs, stats, logged, flattenVars, docVars, tokVars, viewVars, humVars, findVars>>

\* stats := output.GetOutputStats(allChunks)
ShowStats ==
    /\ pc = "stats"
    /\ stats' = GetOutputStats(allChunks)
    /\ pc' = "done"
    /\ UNCHANGED <<files, fileIdx, allChunks, successCount, errorCount,
                   openDocs, written, writeErr, logged,
                   flattenVars, docVars, tokVars, viewVars, humVars, findVars>>

Next ==
    \/ StartClient
    \/ ProcessFileFailed
    \/ ProcessFileConverted
    \/ WriteOutput
    \/ ShowStats

Spec == Init /\ [][Next]_vars

\* C5: a chunk list with zero elements that reaches WriteJSON or
\* WriteJSONCompact is written as an empty JSON array, never as null: so
\* also the accumulator of main when no file yields a chunk.
C5_EmptyListIsArray ==
    (written # NotWritten /\ Len(allChunks.elems) = 0) =>
        (written.kind = "array" /\ written.elems = <<>>)

\* The view fields a written chunk carries: those of the record, or none
\* when the chunk never went through BuildViews.
HasViews(c) == {"TextView", "CodeView", "IdentTokens"} \subseteq DOMAIN c

\* C11: every chunk handed to WriteJSON / WriteJSONCompact went through one
\* BuildViews pass after flattening, so each written chunk carries the
\* text_view, code_view and ident_tokens that BuildViews computes for it.
C11_ViewsPopulated ==
    \A i \in DOMAIN written.elems :
        LET c == written.elems[i]
        IN /\ HasViews(c)
           /\ c.TextView = BuildViews(c).TextView
           /\ c.CodeView = BuildViews(c).CodeView
           /\ c.IdentTokens = BuildViews(c).IdentTokens

\* The positions of the accumulated chunks that come from the file path.
ChunksFrom(path) ==
    { k \in DOMAIN allChunks.elems : allChunks.elems[k].Context.FilePath = path }

\* The loop turns so far that the warning-free log lines report.
Succeeded == { i \in DOMAIN logged : logged[i].warning = "" }

\* C12: a failure of GetDocumentSymbols for one file is counted and skipped
\* and never aborts the remaining files: the files are attempted once each
\* in list order, successCount + errorCount is the number of files
\* attempted (all of them once the loop is over), and the accumulated chunks
\* are, file after file in list order, the chunks of exactly the files that
\* succeeded.
C12_FailuresSkipped ==
    /\ Len(logged) = fileIdx /\ fileIdx <= Len(files)
    /\ \A i \in DOMAIN logged : logged[i].file = files[i].path
    /\ successCount = Cardinality(Succeeded)
    /\ errorCount = Cardinality(DOMAIN logged \ Succeeded)
    /\ successCount + errorCount = fileIdx
    /\ pc \in {"stats", "done"} => successCount + errorCount = Len(files)
    /\ \A k \in DOMAIN allChunks.elems :
         \E i \in Succeeded : k \in ChunksFrom(logged[i].file)
    /\ \A i \in DOMAIN logged :
         IF i \in Succeeded
         THEN LET at == ChunksFrom(logged[i].file)
                  before == { k \in DOMAIN allChunks.elems :
                                \E j \in Succeeded :
                                   j < i /\ k \in ChunksFrom(logged[j].file) }
              IN /\ at = (Cardinality(before) + 1) ..
                         (Cardinality(before) + logged[i].created)
                 /\ \E syms \in PipelineForests :
                      ConvertSymbolsToChunks(syms, files[i]).elems =
                          [k \in 1..logged[i].created |->
                              allChunks.elems[Cardinality(before) + k]]
         ELSE ChunksFrom(logged[i].file) = {}

\* the loop is over, the first file failed and the second gave chunks
C12_Witness ==
    /\ pc = "done" /\ Len(files) = 2
    /\ logged[1].warning # "" /\ logged[2].warning = "" /\ logged[2].created > 0
    /\ Len(allChunks.elems) = logged[2].created

----------------------------------------------------------------------------
\* internal/parser parser.go: FindCppFiles and isCppFile.

\* Directories to skip
skipDirs ==
    { <<"b","u","i","l","d">>, <<".","g","i","t">>,
      <<"n","o","d","e","_","m","o","d","u","l","e","s">>,
      <<"C","M","a","k","e","F","i","l","e","s">>,
      <<".","c","a","c","h","e">>, <<"v","e","n","d","o","r">> }

cppExtensions ==
    << <<".","c","p","p">>, <<".","c","c">>, <<".","c","x","x">>,
       <<".","c","+","+">>, <<".","h","p","p">>, <<".","h">>,
       <<".","h","x","x">>, <<".","h","+","+">> >>

\* filepath.Ext: the suffix of path from the last dot of its last element
RECURSIVE filepathExt(_, _)
filepathExt(path, i) ==
    IF i < 1 \/ path[i] = "/" THEN <<>>
    ELSE IF path[i] = "." THEN SubSeq(path, i, Len(path))
    ELSE filepathExt(path, i - 1)

isCppFile(path) ==
    LET ext == ToLower(filepathExt(path, Len(path)))
    IN \E k \in DOMAIN cppExtensions : ext = cppExtensions[k]

\* filepath.Join(path, name) for a clean path
filepathJoin(path, name) ==
    IF path = <<"/">> THEN path \o name ELSE path \o <<"/">> \o name

RECURSIVE walk(_, _, _)
RECURSIVE walkNames(_, _, _)

\* The callback of FindCppFiles on a directory that ignores skipDirs
walkNoSkip(path, info, acc) ==
    IF info.IsDir
    THEN walkNames(path, info.Children, acc)
    ELSE IF isCppFile(path) THEN AppendOne(acc, path) ELSE acc

\* filepath.Walk below path with the callback of FindCppFiles: a skipped
\* directory (filepath.SkipDir) is not read, any other directory is read and
\* its entries are walked in the order of their names; a file with a C++
\* extension is appended to files.
walk(path, info, acc) ==
    IF info.IsDir
    THEN IF info.Name \in skipDirs THEN acc
         ELSE walkNames(path, info.Children, acc)
    ELSE IF isCppFile(path) THEN AppendOne(acc, path) ELSE acc

\* the loop of filepath.Walk over the sorted names of a directory
walkNames(path, entries, acc) ==
    IF entries = <<>> THEN acc
    ELSE walkNames(path, Tail(entries),
             walk(filepathJoin(path, Head(entries).Name), Head(entries), acc))

\* FindCppFiles: os.Lstat of a root that does not exist fails, the callback
\* returns nil for the error and Walk returns nil with files still nil.
FindCppFiles(root) ==
    IF ~root.exists THEN [files |-> NilSlice, err |-> FALSE]
    ELSE [files |-> walk(root.path, root.info, NilSlice), err |-> FALSE]

----------------------------------------------------------------------------
\* SpecFind: FindCppFiles on every directory tree of up to MaxEntries
\* entries below the root.

\* The entry names of the model in the order os.ReadDir sorts them, each a
\* file or a directory: .git, .h, A.CPP, Build, a.txt, build, d.cc, m.
EntryNames ==
    << [Name |-> <<".","g","i","t">>, IsDir |-> TRUE],
       [Name |-> <<".","h">>, IsDir |-> FALSE],
       [Name |-> <<"A",".","C","P","P">>, IsDir |-> FALSE],
       [Name |-> <<"B","u","i","l","d">>, IsDir |-> TRUE],
       [Name |-> <<"a",".","t","x","t">>, IsDir |-> FALSE],
       [Name |-> <<"b","u","i","l","d">>, IsDir |-> TRUE],
       [Name |-> <<"d",".","c","c">>, IsDir |-> TRUE],
       [Name |-> <<"m">>, IsDir |-> FALSE] >>

FileInfo(k, entries) ==
    [Name |-> EntryNames[k].Name, IsDir |-> EntryNames[k].IsDir,
     Children |-> entries]

\* the number of entries of a listing, at any depth
RECURSIVE EntryCount(_)
EntryCount(entries) ==
    IF entries = <<>> THEN 0
    ELSE 1 + EntryCount(Head(entries).Children) + EntryCount(Tail(entries))

\* The listings of at most n entries (at any depth) whose names follow
\* EntryNames from index from on: a directory listing in sorted order.
RECURSIVE Listings(_, _)
Listings(n, from) ==
    IF n = 0 THEN { <<>> }
    ELSE { <<>> } \cup
         UNION { IF EntryNames[k].IsDir
                 THEN UNION { { <<FileInfo(k, sub)>> \o rest :
                                  rest \in Listings(n - 1 - EntryCount(sub), k + 1) } :
                              sub \in Listings(n - 1, 1) }
                 ELSE { <<FileInfo(k, <<>>)>> \o rest :
                          rest \in Listings(n - 1, k + 1) } :
                 k \in from..Len(EntryNames) }

RootPaths == { <<"/","r">>, <<"/","v","e","n","d","o","r">> }

\* The roots FindCppFiles is called on: a directory tree, or a path at which
\* nothing exists.
FsRoots ==
    { [exists |-> TRUE, path |-> p,
       info |-> [Name |-> pathBase(p), IsDir |-> TRUE, Children |-> l]] :
        p \in RootPaths, l \in Listings(MaxEntries, 1) }
    \cup { [exists |-> FALSE, path |-> p, info |-> <<>>] : p \in RootPaths }

InitFind ==
    /\ fsRoot \in FsRoots
    /\ found = NilSlice /\ findErr = FALSE
    /\ wpc = "call"
    /\ IdleFlatten /\ IdleDoc /\ IdleTok /\ IdleViews /\ IdleMain /\ IdleHum

\* files, err := parser.FindCppFiles(*rootPath)
CallFindCppFiles ==
    /\ wpc = "call"
    /\ found' = FindCppFiles(fsRoot).files
    /\ findErr' = FindCppFiles(fsRoot).err
    /\ wpc' = "returned"
    /\ UNCHANGED <<fsRoot, flattenVars, docVars, tokVars, viewVars, mainVars,
                   humVars>>

NextFind == CallFindCppFiles

SpecFind == InitFind /\ [][NextFind]_vars

\* The directory names and the extensions the claim lists.
ExcludedDirNames ==
    { <<"b","u","i","l","d">>, <<".","g","i","t">>,
      <<"n","o","d","e","_","m","o","d","u","l","e","s">>,
      <<"C","M","a","k","e","F","i","l","e","s">>,
      <<".","c","a","c","h","e">>, <<"v","e","n","d","o","r">> }

CppSuffixes ==
    { <<".","c","p","p">>, <<".","c","c">>, <<".","c","x","x">>,
      <<".","c","+","+">>, <<".","h","p","p">>, <<".","h">>,
      <<".","h","x","x">>, <<".","h","+","+">> }

\* name ends in one of the extensions, compared without regard to case
HasCppExtension(name) ==
    \E e \in CppSuffixes :
        /\ Len(name) >= Len(e)
        /\ ToLower(SubSeq(name, Len(name) - Len(e) + 1, Len(name))) = e

\* The path of the entry at position a of the tree below root.
RECURSIVE PathString(_, _, _)
PathString(prefix, entries, a) ==
    LET here == prefix \o <<"/">> \o entries[a[1]].Name
    IN IF Len(a) = 1 THEN here
       ELSE PathString(here, entries[a[1]].Children, Tail(a))

\* The files the claim expects for root: the files below it with a C++
\* extension that lie under no excluded directory, the root included.
ExpectedFiles(root) ==
    LET top == root.info.Children
    IN IF root.info.Name \in ExcludedDirNames THEN {}
       ELSE { a \in PathsOf(top) :
                /\ ~NodeAt(top, a).IsDir
                /\ HasCppExtension(NodeAt(top, a).Name)
                /\ \A k \in 1..(Len(a) - 1) :
                      NodeAt(top, SubSeq(a, 1, k)).Name \notin ExcludedDirNames }

C13_WitnessMissingRoot ==
    wpc = "returned" /\ ~fsRoot.exists /\ found.elems = <<>> /\ ~findErr

\* C14: when the source file is unreadable or missing, ConvertSymbolsToChunks
\* still produces one chunk per extractable node, with the name, signature,
\* code_type, line fields and struct_name it has with a readable file, and
\* with an empty docstring and an empty snippet whatever the range is.
C14_UnreadableFile ==
    (fpc = "returned" /\ ~file.readable) =>
        LET readable == ConvertSymbolsToChunks(symbols, SourceFile).elems
        IN /\ Len(chunks.elems) = Cardinality(ExtractablePaths(symbols))
           /\ Len(readable) = Len(chunks.elems)
           /\ \A a \in ExtractablePaths(symbols) :
                LET n == NodeAt(symbols, a)
                    c == chunks.elems[Rank(symbols, a)]
                    r == readable[Rank(symbols, a)]
                IN /\ c.Name = n.Name /\ c.Name = r.Name
                   /\ c.Signature = (IF n.Detail = <<>> THEN n.Name ELSE n.Detail)
                   /\ c.Signature = r.Signature
                   /\ c.CodeType = TableLabel(n.Kind) /\ c.CodeType = r.CodeType
                   /\ c.Line = r.Line /\ c.LineFrom = r.LineFrom
                   /\ c.LineTo = r.LineTo
                   /\ c.Context.StructName = NearestStructName(symbols, a)
                   /\ c.Context.StructName = r.Context.StructName
                   /\ c.Docstring = <<>>
                   /\ c.Context.Snippet = <<>>

\* a function on line 2..2 of a file that cannot be opened: the readable
\* file gives it the docstring d and its line as snippet
C14_Witness ==
    /\ fpc = "returned" /\ file = UnreadableFile
    /\ Len(symbols) = 1 /\ symbols[1].Kind = SymbolKindFunction
    /\ symbols[1].Range.Start.Line = 2 /\ symbols[1].Range.End.Line = 2
    /\ Len(chunks.elems) = 1
    /\ chunks.elems[1].Docstring = <<>> /\ chunks.elems[1].Context.Snippet = <<>>
    /\ chunks.elems[1].LineFrom = 3
    /\ ConvertSymbolsToChunks(symbols, SourceFile).elems[1].Docstring = <<"d">>

\* a missing file and a range that starts before line 0
C14_WitnessNegative ==
    /\ fpc = "returned" /\ file = MissingFile
    /\ Len(symbols) = 1 /\ symbols[1].Kind = SymbolKindFunction
    /\ symbols[1].Range.Start.Line = -1 /\ symbols[1].Range.End.Line = 0
    /\ Len(chunks.elems) = 1 /\ chunks.elems[1].LineFrom = 0

\* The eight labels of the extractable kinds.
ExtractableLabels ==
    {LabelFunction, LabelMethod, LabelClass, LabelStruct, LabelConstructor,
     LabelEnum, LabelInterface, LabelNamespace}

\* C15: a node whose kind is outside the extractable set (Variable,
\* Property, Field, an unrecognised integer) produces no chunk, so every
\* chunk has as code_type the table label of its node's kind, one of the
\* eight labels and never Unknown.
C15_NoChunkOutsideSet ==
    fpc = "returned" =>
        /\ Len(chunks.elems) =
              Cardinality({ a \in PathsOf(symbols) :
                              NodeAt(symbols, a).Kind \in ExtractableKinds })
        /\ \A a \in ExtractablePaths(symbols) :
              chunks.elems[Rank(symbols, a)].CodeType =
                  TableLabel(NodeAt(symbols, a).Kind)
        /\ \A i \in DOMAIN chunks.elems :
              /\ chunks.elems[i].CodeType \in ExtractableLabels
              /\ chunks.elems[i].CodeType # LabelUnknown

\* a node of the unrecognised kind 27 with a Method below it: the one chunk
\* is the Method's
C15_Witness ==
    /\ fpc = "returned"
    /\ Len(symbols) = 1 /\ symbols[1].Kind = 27
    /\ Len(symbols[1].Children) = 1
    /\ symbols[1].Children[1].Kind = SymbolKindMethod
    /\ Len(chunks.elems) = 1
    /\ chunks.elems[1].CodeType = LabelMethod
    /\ chunks.elems[1].Name = NameB

----------------------------------------------------------------------------
\* SpecHum: Humanize on every string of up to MaxLen characters.

\* Letters of both cases, a digit, the underscore, the characters of the
\* separators "::", "->" and ".", and a letter outside ASCII.
HumAlphabet == {"a", "B", "1", "_", ":", "-", ">", ".", "é"}

InitHum ==
    /\ hIn \in SeqsUpTo(HumAlphabet, MaxLen)
    /\ hOut = <<>>
    /\ hpc = "call"
    /\ IdleFlatten /\ IdleDoc /\ IdleTok /\ IdleViews /\ IdleMain /\ IdleFind

\* nameH := Humanize(nameRaw), and Humanize on a result of Humanize
CallHumanize ==
    /\ hpc \in {"call", "returned"}
    /\ hOut' = Humanize(IF hpc = "call" THEN hIn ELSE hOut)
    /\ hpc' = IF hpc = "call" THEN "returned" ELSE "again"
    /\ UNCHANGED <<hIn, flattenVars, docVars, tokVars, viewVars, mainVars,
                   findVars>>

NextHum == CallHumanize

SpecHum == InitHum /\ [][NextHum]_vars

\* C16: Humanize returns one phrase: the maximal runs of letters (A-Z, a-z),
\* digits and underscores of the input, in order, in their original casing
\* and joined by single spaces, with no boundary at a case transition; the
\* empty string for the empty input; and Humanize of its own result is that
\* result.  Every other character, the separators ::, -> and . and a letter
\* outside ASCII among them, only separates runs.
C16_Humanize ==
    hpc \in {"returned", "again"} =>
        /\ hOut = Spaced(MaximalRuns(hIn, "word"))
        /\ hIn = <<>> => hOut = <<>>

\* "aB.1": the run aB keeps its case transition, and the second call of
\* Humanize returns the phrase of the first
C16_Witness ==
    /\ hpc = "again"
    /\ hIn = <<"a", "B", ".", "1">>
    /\ hOut = <<"a", "B", " ", "1">>

\* There is a boundary after position i of u by the two rules of the claim:
\* (a) a lowercase letter or digit before an uppercase letter, (b) an
\* uppercase letter before an uppercase letter that a lowercase one follows.
TwoRuleBoundary(u, i) ==
    \/ (IsLower(u[i]) \/ IsDigit(u[i])) /\ IsUpper(u[i + 1])
    \/ /\ IsUpper(u[i]) /\ IsUpper(u[i + 1])
       /\ i + 2 <= Len(u) /\ IsLower(u[i + 2])

\* (c) a letter next to a digit, in either order
LetterDigitBoundary(u, i) ==
    \/ (IsLower(u[i]) \/ IsUpper(u[i])) /\ IsDigit(u[i + 1])
    \/ IsDigit(u[i]) /\ (IsLower(u[i + 1]) \/ IsUpper(u[i + 1]))

\* The pieces of the non-empty u cut after each position of the set cuts.
PiecesCutAt(u, cuts) ==
    LET ends == Ascending(cuts \cup {Len(u)})
    IN [k \in DOMAIN ends |->
           SubSeq(u, IF k = 1 THEN 1 ELSE ends[k - 1] + 1, ends[k])]

\* C17 as stated: the pieces of every sub-part are those of the rules (a)
\* and (b), with no boundary between a letter and an adjacent digit.
C17_TwoRules ==
    \A k \in DOMAIN tParts :
        LET u == tParts[k].u
        IN tParts[k].parts =
              PiecesCutAt(u, { i \in 1..(Len(u) - 1) : TwoRuleBoundary(u, i) })

\* C17 amended: the pieces of every sub-part are those of the rules (a),
\* (b) and (c), a boundary between a letter and an adjacent digit.
C17_ThreeRules ==
    \A k \in DOMAIN tParts :
        LET u == tParts[k].u
        IN tParts[k].parts =
              PiecesCutAt(u, { i \in 1..(Len(u) - 1) :
                                 TwoRuleBoundary(u, i) \/ LetterDigitBoundary(u, i) })

\* "ABa1": the boundary of rule (b) after A and that of rule (c) before 1
C17_Witness ==
    /\ tpc = "returned"
    /\ tIn = <<"A", "B", "a", "1">>
    /\ tParts = << [u |-> tIn, parts |-> << <<"A">>, <<"B", "a">>, <<"1">> >>] >>

\* C18: the chunk of a node with the 0-indexed range s..e has line =
\* line_from = s + 1 and line_to = e + 1, whether or not the range is valid
\* for the source lines.
C18_LineFields ==
    fpc = "returned" =>
        \A a \in ExtractablePaths(symbols) :
            LET n == NodeAt(symbols, a)
                c == chunks.elems[Rank(symbols, a)]
            IN /\ c.Line = n.Range.Start.Line + 1
               /\ c.LineFrom = n.Range.Start.Line + 1
               /\ c.Line = c.LineFrom
               /\ c.LineTo = n.Range.End.Line + 1

\* a function with the range 3..-1 in a file of three lines: the range is
\* not valid, line_from is 4 and line_to is 0
C18_Witness ==
    /\ fpc = "returned" /\ file = SourceFile
    /\ Len(symbols) = 1 /\ symbols[1].Kind = SymbolKindFunction
    /\ symbols[1].Range.Start.Line = 3 /\ symbols[1].Range.End.Line = -1
    /\ Len(chunks.elems) = 1
    /\ chunks.elems[1].Line = 4 /\ chunks.elems[1].LineFrom = 4
    /\ chunks.elems[1].LineTo = 0
    /\ chunks.elems[1].Context.Snippet = <<>>

\* C19: every textDocument/didOpen that GetDocumentSymbols sends is followed
\* by the textDocument/didClose of the same file before it returns, also
\* when the textDocument/documentSymbol request fails, so that after any
\* sequence of calls no document is open on the server.
C19_NoDocumentLeftOpen == openDocs = {}

====
